---- MODULE Spec2Model ----
(***************************************************************************)
(* A model of the book catalogue service of src/main.py: the catalogue     *)
(* parser (parse_book_links and its helpers), the scorer (compute_score,   *)
(* with difflib's SequenceMatcher.ratio), the ranker (rank_matches) and    *)
(* the lookup handler (BookApiHandler.do_GET).                             *)
(*                                                                         *)
(* A Python str is a sequence of characters.  A character is a one-letter  *)
(* TLA+ string; the three characters that have no printable ASCII form are *)
(* written "LF" (U+000A), "NDASH" (U+2013) and "NNBSP" (U+202F).           *)
(* A Python float score is the exact fraction [n |-> .., d |-> ..].        *)
(***************************************************************************)
EXTENDS Integers, Sequences, FiniteSets

VARIABLES
    text,           \* contents of book_links.txt, or NoFile
    pc,             \* position of the running operation
    lines,          \* parse_book_links: text.splitlines()
    pos,            \* parse_book_links: number of lines consumed by the loop
    ctx,            \* parse_book_links: locals section_title, form, subject, books
    books,          \* the list returned by load_books to its caller
    query,          \* the query of the current lookup / scoring
    limit,          \* rank_matches: parameter limit
    item,           \* compute_score: parameter item
    score,          \* compute_score: returned value
    ranked,         \* rank_matches: returned list
    response,       \* do_GET: the payload and HTTP status sent
    n_scored        \* do_GET: calls of compute_score made by the request

vars == <<text, pc, lines, pos, ctx, books, query, limit, item, score, ranked,
          response, n_scored>>

----------------------------------------------------------------------------
(* Characters *)

UpperChars == <<"A","B","C","D","E","F","G","H","I","J","K","L","M",
                "N","O","P","Q","R","S","T","U","V","W","X","Y","Z">>

LowerChars == <<"a","b","c","d","e","f","g","h","i","j","k","l","m",
                "n","o","p","q","r","s","t","u","v","w","x","y","z">>

DigitChars == <<"0","1","2","3","4","5","6","7","8","9">>

\* The characters of the model in ascending code point order.
CodePoints ==
    <<"LF", " ", "!", "#", "(", ")", "*", "-", ".", "/">> \o DigitChars
    \o <<":", "<", ">">> \o UpperChars \o LowerChars \o <<"NDASH", "NNBSP">>

Range(s) == {s[i] : i \in 1..Len(s)}

Alphabet == Range(CodePoints)

IndexIn(s, c) == CHOOSE i \in 1..Len(s) : s[i] = c

\* ord(c), up to an order-preserving renumbering
OrdOf == [c \in Alphabet |-> IndexIn(CodePoints, c)]

LowerOf == [c \in Alphabet |->
              IF c \in Range(UpperChars) THEN LowerChars[IndexIn(UpperChars, c)] ELSE c]

UpperOf == [c \in Alphabet |->
              IF c \in Range(LowerChars) THEN UpperChars[IndexIn(LowerChars, c)] ELSE c]

IsLetter(c) == c \in Range(UpperChars) \cup Range(LowerChars)

\* str.isspace() on the characters of the model; also the class \s of re
IsSpace(c) == c \in {" ", "LF", "NNBSP"}

\* the class [a-z0-9] of normalize_text
IsLowerAlnum(c) == c \in Range(LowerChars) \cup Range(DigitChars)

----------------------------------------------------------------------------
(* str methods *)

Lower(s) == [i \in 1..Len(s) |-> LowerOf[s[i]]]

Upper(s) == [i \in 1..Len(s) |-> UpperOf[s[i]]]

\* str.title(): a letter is upper-cased when no letter precedes it, lower-cased otherwise
Title(s) ==
    [i \in 1..Len(s) |->
        IF i > 1 /\ IsLetter(s[i-1]) THEN LowerOf[s[i]] ELSE UpperOf[s[i]]]

Drop(s, n) == SubSeq(s, n + 1, Len(s))

RECURSIVE LStripChars(_, _)
LStripChars(s, cs) ==
    IF s # <<>> /\ Head(s) \in cs THEN LStripChars(Tail(s), cs) ELSE s

RECURSIVE RStripChars(_, _)
RStripChars(s, cs) ==
    IF s # <<>> /\ s[Len(s)] \in cs
    THEN RStripChars(SubSeq(s, 1, Len(s) - 1), cs)
    ELSE s

SpaceChars == {c \in Alphabet : IsSpace(c)}

\* str.strip()
Strip(s) == RStripChars(LStripChars(s, SpaceChars), SpaceChars)

\* str.startswith(p)
StartsWith(s, p) == Len(s) >= Len(p) /\ SubSeq(s, 1, Len(p)) = p

\* sub in s
Contains(s, sub) ==
    \E i \in 0..(Len(s) - Len(sub)) : SubSeq(s, i + 1, i + Len(sub)) = sub

\* str.replace(old, new), old non-empty: leftmost non-overlapping occurrences
RECURSIVE Replace(_, _, _)
Replace(s, old, new) ==
    IF s = <<>> THEN <<>>
    ELSE IF StartsWith(s, old) THEN new \o Replace(Drop(s, Len(old)), old, new)
    ELSE <<Head(s)>> \o Replace(Tail(s), old, new)

\* str.split(): the maximal runs of non-space characters
RECURSIVE Split(_)
Split(s) ==
    LET t == LStripChars(s, SpaceChars)
        n == IF \E i \in 1..Len(t) : IsSpace(t[i])
             THEN (CHOOSE i \in 1..Len(t) :
                      IsSpace(t[i]) /\ \A j \in 1..(i-1) : ~IsSpace(t[j])) - 1
             ELSE Len(t)
    IN  IF t = <<>> THEN <<>>
        ELSE <<SubSeq(t, 1, n)>> \o Split(Drop(t, n))

\* " ".join(words)
RECURSIVE JoinWith(_, _)
JoinWith(sep, words) ==
    IF words = <<>> THEN <<>>
    ELSE IF Len(words) = 1 THEN words[1]
    ELSE words[1] \o sep \o JoinWith(sep, Tail(words))

\* str.splitlines(): the only line boundary of the model's alphabet is LF
RECURSIVE SplitLines(_)
SplitLines(s) ==
    IF s = <<>> THEN <<>>
    ELSE IF \E i \in 1..Len(s) : s[i] = "LF"
    THEN LET i == CHOOSE i \in 1..Len(s) :
                      s[i] = "LF" /\ \A j \in 1..(i-1) : s[j] # "LF"
         IN  <<SubSeq(s, 1, i - 1)>> \o SplitLines(Drop(s, i))
    ELSE <<s>>

\* s1 < s2 for str: lexicographic by code point
RECURSIVE StrLess(_, _)
StrLess(s1, s2) ==
    IF s2 = <<>> THEN FALSE
    ELSE IF s1 = <<>> THEN TRUE
    ELSE IF Head(s1) # Head(s2) THEN OrdOf[Head(s1)] < OrdOf[Head(s2)]
    ELSE StrLess(Tail(s1), Tail(s2))

----------------------------------------------------------------------------
(* String constants of the source *)

General == <<"G","e","n","e","r","a","l">>

PastPapers == <<"P","a","s","t"," ","P","a","p","e","r","s">>

PAST_PAPERS == <<"P","A","S","T"," ","P","A","P","E","R","S">>

BOOKS == <<"B","O","O","K","S">>

FORM == <<"F","O","R","M">>

FormPrefix == <<"F","o","r","m"," ">>

HeadingMarker == <<"#","#","#">>

\* a failed re.match (None): a successful one captures non-empty groups
NoMatch == [g1 |-> <<>>, g2 |-> <<>>]

NoFile == "NoFile"

----------------------------------------------------------------------------
(* normalize_text *)

NonAlnumChars == {c \in Alphabet : ~IsLowerAlnum(c)}

\* re.sub(r"[^a-z0-9]+", " ", value)
RECURSIVE SubNonAlnum(_)
SubNonAlnum(s) ==
    IF s = <<>> THEN <<>>
    ELSE IF IsLowerAlnum(Head(s)) THEN <<Head(s)>> \o SubNonAlnum(Tail(s))
    ELSE <<" ">> \o SubNonAlnum(LStripChars(s, NonAlnumChars))

normalize_text(value) == JoinWith(<<" ">>, Split(SubNonAlnum(Lower(value))))

----------------------------------------------------------------------------
(* Heading helpers *)

\* FORM\s*([1-6]) matches at index i of u
FormMatchAt(u, i) ==
    /\ i + 3 <= Len(u)
    /\ SubSeq(u, i, i + 3) = FORM
    /\ LET r == LStripChars(Drop(u, i + 3), SpaceChars)
       IN  r # <<>> /\ r[1] \in {"1", "2", "3", "4", "5", "6"}

\* extract_form with the digit class [1-5]
extract_form_1to5(title) ==
    LET u == Upper(title)
        at(i) == FormMatchAt(u, i) /\ Head(LStripChars(Drop(u, i + 3), SpaceChars)) # "6"
    IN  IF \E i \in 1..Len(u) : at(i)
        THEN LET i == CHOOSE i \in 1..Len(u) : at(i) /\ \A j \in 1..(i-1) : ~at(j)
             IN  FormPrefix \o <<Head(LStripChars(Drop(u, i + 3), SpaceChars))>>
        ELSE IF Contains(u, PAST_PAPERS) THEN PastPapers
        ELSE General

extract_form(title) ==
    LET u == Upper(title)
    IN  IF \E i \in 1..Len(u) : FormMatchAt(u, i)
        THEN LET i == CHOOSE i \in 1..Len(u) :
                          FormMatchAt(u, i) /\ \A j \in 1..(i-1) : ~FormMatchAt(u, j)
             IN  FormPrefix \o <<Head(LStripChars(Drop(u, i + 3), SpaceChars))>>
        ELSE IF Contains(u, PAST_PAPERS) THEN PastPapers
        ELSE General

extract_section_subject(st) ==
    LET title == Strip(Replace(st, <<"NNBSP">>, <<" ">>))
        upper == Upper(title)
    IN  IF Contains(upper, PAST_PAPERS)
        THEN LET r == Title(Strip(Replace(title, PAST_PAPERS, <<>>)))
             IN  IF r # <<>> THEN r ELSE PastPapers
        ELSE IF Contains(upper, BOOKS) THEN General
        ELSE IF Title(title) # <<>> THEN Title(title) ELSE General

\* \s*\(.*?\) matches at the head of s: the number of characters matched, 0 if none
ParenMatchLen(s) ==
    LET r == LStripChars(s, SpaceChars)
        q == Len(s) - Len(r)
    IN  IF r # <<>> /\ r[1] = "("
           /\ \E e \in 2..Len(r) : r[e] = ")" /\ \A j \in 2..(e-1) : r[j] # "LF"
        THEN q + (CHOOSE e \in 2..Len(r) :
                     r[e] = ")" /\ \A j \in 2..(e-1) : r[j] \notin {"LF", ")"})
        ELSE 0

\* re.sub(r"\s*\(.*?\)", "", name)
RECURSIVE SubParens(_)
SubParens(s) ==
    IF s = <<>> THEN <<>>
    ELSE IF ParenMatchLen(s) > 0 THEN SubParens(Drop(s, ParenMatchLen(s)))
    ELSE <<Head(s)>> \o SubParens(Tail(s))

derive_subject(name, section_subject) ==
    IF section_subject # <<>> /\ section_subject # General
    THEN section_subject
    ELSE LET base == Strip(SubParens(name))
         IN  IF base # <<>> THEN base ELSE name

----------------------------------------------------------------------------
(* The two entry patterns *)

NoLF(s, a, b) == \A j \in a..b : s[j] # "LF"

AllSpace(s, a, b) == \A j \in a..b : IsSpace(s[j])

\* index of the first non-space character of s at or after k (Len(s)+1 if none)
SkipSpace(s, k) ==
    IF \E j \in k..Len(s) : ~IsSpace(s[j])
    THEN CHOOSE j \in k..Len(s) : ~IsSpace(s[j]) /\ AllSpace(s, k, j - 1)
    ELSE Len(s) + 1

\* group 2 ends at e when \s*<(.+?)>\s*$ is matched from index k
LinkEndsAt(s, k, e) ==
    LET j == SkipSpace(s, k)
    IN  /\ j <= Len(s) /\ s[j] = "<"
        /\ e >= j + 1 /\ e + 1 <= Len(s)
        /\ NoLF(s, j + 1, e)
        /\ s[e + 1] = ">"
        /\ AllSpace(s, e + 2, Len(s))

\* \s*<(.+?)>\s*$ from index k: group 2 (lazy: the shortest), <<>> if no match
TailLink(s, k) ==
    IF \E e \in k..Len(s) : LinkEndsAt(s, k, e)
    THEN LET e == CHOOSE e \in k..Len(s) :
                      LinkEndsAt(s, k, e) /\ \A f \in k..(e-1) : ~LinkEndsAt(s, k, f)
         IN  SubSeq(s, SkipSpace(s, k) + 1, e)
    ELSE <<>>

\* group 1 is s[5..k-1] in a match of ^- \*\*(.+?)\*\*\s*<(.+?)>\s*$
BoldEndsAt(s, k) ==
    /\ k >= 6 /\ k + 1 <= Len(s)
    /\ NoLF(s, 5, k - 1)
    /\ s[k] = "*" /\ s[k + 1] = "*"
    /\ TailLink(s, k + 2) # <<>>

\* re.match(r"^- \*\*(.+?)\*\*\s*<(.+?)>\s*$", line): the groups, or NoMatch
MatchBold(s) ==
    IF StartsWith(s, <<"-", " ", "*", "*">>) /\ \E k \in 6..Len(s) : BoldEndsAt(s, k)
    THEN LET k == CHOOSE k \in 6..Len(s) :
                      BoldEndsAt(s, k) /\ \A f \in 6..(k-1) : ~BoldEndsAt(s, f)
         IN  [g1 |-> SubSeq(s, 5, k - 1), g2 |-> TailLink(s, k + 2)]
    ELSE NoMatch

\* group 1 is s[3..k-1] in a match of ^- (.+?)\s*[\u2013-]\s*<(.+?)>\s*$
PlainEndsAt(s, k) ==
    LET j == SkipSpace(s, k)
    IN  /\ k >= 4
        /\ NoLF(s, 3, k - 1)
        /\ j <= Len(s) /\ s[j] \in {"NDASH", "-"}
        /\ TailLink(s, j + 1) # <<>>

\* re.match(r"^- (.+?)\s*[\u2013-]\s*<(.+?)>\s*$", line): the groups, or NoMatch
MatchPlain(s) ==
    IF StartsWith(s, <<"-", " ">>) /\ \E k \in 4..Len(s) : PlainEndsAt(s, k)
    THEN LET k == CHOOSE k \in 4..Len(s) :
                      PlainEndsAt(s, k) /\ \A f \in 4..(k-1) : ~PlainEndsAt(s, f)
         IN  [g1 |-> SubSeq(s, 3, k - 1), g2 |-> TailLink(s, SkipSpace(s, k) + 1)]
    ELSE NoMatch

\* lines 58-68: the name and link captured from a line (<<>> where the code has None)
Captured(line) ==
    LET match == MatchBold(line)
        match_plain == MatchPlain(line)
    IN  IF match # NoMatch
        THEN [name |-> Strip(RStripChars(Strip(match.g1), {"NDASH", "-", " "})),
              link |-> Strip(match.g2)]
        ELSE IF match_plain # NoMatch
        THEN [name |-> Strip(match_plain.g1), link |-> Strip(match_plain.g2)]
        ELSE [name |-> <<>>, link |-> <<>>]

----------------------------------------------------------------------------
(* parse_book_links *)

IsBlankLine(raw) == Strip(raw) = <<>>

IsHeadingLine(raw) == ~IsBlankLine(raw) /\ StartsWith(Strip(raw), HeadingMarker)

HeadingTitle(raw) == Strip(Replace(Strip(raw), HeadingMarker, <<>>))

IsEntryLine(raw) ==
    LET cap == Captured(Strip(raw))
    IN  ~IsBlankLine(raw) /\ ~IsHeadingLine(raw) /\ cap.name # <<>> /\ cap.link # <<>>

\* lines 71-79: the dict appended for the captured name and link under the context c
Entry(c, cap) ==
    [name     |-> cap.name,
     form     |-> c.form,
     subject  |-> derive_subject(cap.name, c.subject),
     category |-> Strip(Replace(c.section_title, <<"NNBSP">>, <<" ">>)),
     link     |-> cap.link]

\* lines 45-48
InitialContext ==
    [section_title |-> General, form |-> General, subject |-> General, books |-> <<>>]

\* ParseLine without line 69: an empty name or link is stored
ParseLineKeepEmpty(c, raw_line) ==
    LET line == Strip(raw_line)
        cap == Captured(line)
    IN  IF line = <<>> THEN c
        ELSE IF StartsWith(line, HeadingMarker)
        THEN LET t == Strip(Replace(line, HeadingMarker, <<>>))
             IN  [c EXCEPT !.section_title = t,
                           !.form = extract_form(t),
                           !.subject = extract_section_subject(t)]
        ELSE IF MatchBold(line) = NoMatch /\ MatchPlain(line) = NoMatch THEN c
        ELSE [c EXCEPT !.books = Append(c.books, Entry(c, cap))]

\* ParseLine with a blank line ending the section
ParseLineResetOnBlank(c, raw_line) ==
    LET line == Strip(raw_line)
        cap == Captured(line)
    IN  IF line = <<>>
        THEN [c EXCEPT !.section_title = General, !.form = General, !.subject = General]
        ELSE IF StartsWith(line, HeadingMarker)
        THEN LET t == Strip(Replace(line, HeadingMarker, <<>>))
             IN  [c EXCEPT !.section_title = t,
                           !.form = extract_form(t),
                           !.subject = extract_section_subject(t)]
        ELSE IF cap.name = <<>> \/ cap.link = <<>> THEN c
        ELSE [c EXCEPT !.books = Append(c.books, Entry(c, cap))]

\* lines 50-79: one iteration of the loop
ParseLine(c, raw_line) ==
    LET line == Strip(raw_line)
        cap == Captured(line)
    IN  IF line = <<>> THEN c
        ELSE IF StartsWith(line, HeadingMarker)
        THEN LET t == Strip(Replace(line, HeadingMarker, <<>>))
             IN  [c EXCEPT !.section_title = t,
                           !.form = extract_form(t),
                           !.subject = extract_section_subject(t)]
        ELSE IF cap.name = <<>> \/ cap.link = <<>> THEN c
        ELSE [c EXCEPT !.books = Append(c.books, Entry(c, cap))]

RECURSIVE ParseLines(_, _)
ParseLines(c, ls) ==
    IF ls = <<>> THEN c ELSE ParseLines(ParseLine(c, Head(ls)), Tail(ls))

parse_book_links(t) == ParseLines(InitialContext, SplitLines(t)).books

\* load_books: a missing file is an empty catalogue
load_books(file) == IF file = NoFile THEN <<>> ELSE parse_book_links(file)

----------------------------------------------------------------------------
(* Scores: exact fractions in lowest terms *)

RECURSIVE Gcd(_, _)
Gcd(a, b) == IF b = 0 THEN a ELSE Gcd(b, a % b)

Frac(n, d) == [n |-> n \div Gcd(n, d), d |-> d \div Gcd(n, d)]

Zero == Frac(0, 1)

One == Frac(1, 1)

FLess(x, y) == x.n * y.d < y.n * x.d

FLeq(x, y) == x.n * y.d <= y.n * x.d

FMax(x, y) == IF FLess(x, y) THEN y ELSE x

FMin(x, y) == IF FLess(y, x) THEN y ELSE x

\* x - y <= z, for x >= y
FWithin(x, y, z) == (x.n * y.d - y.n * x.d) * z.d <= z.n * x.d * y.d

\* round(x, 3) as a number of thousandths, ties to the even one
Round3(x) ==
    LET q == (x.n * 1000) \div x.d
        r == (x.n * 1000) % x.d
    IN  IF 2 * r > x.d \/ (2 * r = x.d /\ q % 2 = 1) THEN q + 1 ELSE q

----------------------------------------------------------------------------
(* difflib.SequenceMatcher(None, a, b).ratio(), for len(b) < 200 *)

\* length of the longest common prefix of a[i..ahi] and b[j..bhi]
RECURSIVE RunLen(_, _, _, _, _, _)
RunLen(a, i, ahi, b, j, bhi) ==
    IF i <= ahi /\ j <= bhi /\ a[i] = b[j]
    THEN 1 + RunLen(a, i + 1, ahi, b, j + 1, bhi)
    ELSE 0

\* the longest block that starts at a[i], the earliest in b: [j, k], k = 0 if none
RowBest(a, i, ahi, b, blo, bhi) ==
    LET run == [j \in blo..bhi |-> RunLen(a, i, ahi, b, j, bhi)]
        k == CHOOSE k \in 0..(ahi - i + 1) :
                 /\ \A j \in blo..bhi : run[j] <= k
                 /\ k > 0 => \E j \in blo..bhi : run[j] = k
    IN  [j |-> IF k = 0 THEN blo
               ELSE CHOOSE j \in blo..bhi :
                        run[j] = k /\ \A g \in blo..(j-1) : run[g] # k,
         k |-> k]

\* find_longest_match's loop from a[i] on: a block replaces best only if it is longer
RECURSIVE ScanBlocks(_, _, _, _, _, _, _)
ScanBlocks(a, i, ahi, b, blo, bhi, best) ==
    IF i > ahi THEN best
    ELSE LET r == RowBest(a, i, ahi, b, blo, bhi)
         IN  ScanBlocks(a, i + 1, ahi, b, blo, bhi,
                        IF r.k > best.k THEN [i |-> i, j |-> r.j, k |-> r.k] ELSE best)

\* find_longest_match: the longest block, the earliest in a, then the earliest in b
find_longest_match(a, alo, ahi, b, blo, bhi) ==
    ScanBlocks(a, alo, ahi, b, blo, bhi, [i |-> alo, j |-> blo, k |-> 0])

\* get_matching_blocks: the total size of the matching blocks
RECURSIVE MatchCount(_, _, _, _, _, _)
MatchCount(a, alo, ahi, b, blo, bhi) ==
    IF alo > ahi \/ blo > bhi THEN 0
    ELSE LET m == find_longest_match(a, alo, ahi, b, blo, bhi)
         IN  IF m.k = 0 THEN 0
             ELSE m.k + MatchCount(a, alo, m.i - 1, b, blo, m.j - 1)
                      + MatchCount(a, m.i + m.k, ahi, b, m.j + m.k, bhi)

ratio(a, b) ==
    IF Len(a) + Len(b) = 0 THEN One
    ELSE Frac(2 * MatchCount(a, 1, Len(a), b, 1, Len(b)), Len(a) + Len(b))

----------------------------------------------------------------------------
(* compute_score *)

\* line 105: the substring bonus
SubstringFloor == Frac(9, 10)

\* line 111: 0.7 + 0.3 * overlap, overlap = k / n
TokenScore(k, n) == Frac(7 * n + 3 * k, 10 * n)

\* line 95: the f-string of name, subject, form and category
CombinedText(it) ==
    it.name \o <<" ">> \o it.subject \o <<" ">> \o it.form \o <<" ">> \o it.category

\* lines 101-112: the score of a query that is neither empty nor the name
ScoreSignals(normalized_query, normalized_name, normalized_all) ==
    LET base == FMax(ratio(normalized_query, normalized_name),
                     ratio(normalized_query, normalized_all))
        sub == IF Contains(normalized_name, normalized_query)
                  /\ Len(normalized_query) >= 3
               THEN FMax(base, SubstringFloor) ELSE base
        query_tokens == Range(Split(normalized_query))
        name_tokens == Range(Split(normalized_name))
        common == Cardinality(query_tokens \cap name_tokens)
        tok == IF query_tokens # {} /\ common > 0
               THEN FMax(sub, TokenScore(common, Cardinality(query_tokens)))
               ELSE sub
    IN  FMin(tok, One)

\* compute_score without lines 97-98
compute_score_NoEmptyCheck(q, it) ==
    LET normalized_query == normalize_text(q)
        normalized_name == normalize_text(it.name)
        normalized_all == normalize_text(CombinedText(it))
    IN  IF normalized_query = normalized_name THEN One
        ELSE ScoreSignals(normalized_query, normalized_name, normalized_all)

\* compute_score with the values of lines 98 and 100 exchanged
compute_score_SwappedReturns(q, it) ==
    LET normalized_query == normalize_text(q)
        normalized_name == normalize_text(it.name)
        normalized_all == normalize_text(CombinedText(it))
    IN  IF normalized_query = <<>> THEN One
        ELSE IF normalized_query = normalized_name THEN Zero
        ELSE ScoreSignals(normalized_query, normalized_name, normalized_all)

compute_score(q, it) ==
    LET normalized_query == normalize_text(q)
        normalized_name == normalize_text(it.name)
        normalized_all == normalize_text(CombinedText(it))
    IN  IF normalized_query = <<>> THEN Zero
        ELSE IF normalized_query = normalized_name THEN One
        ELSE ScoreSignals(normalized_query, normalized_name, normalized_all)

----------------------------------------------------------------------------
(* rank_matches *)

\* KeyLess with the key -score alone
KeyLessScoreOnly(x, y) == FLess(y[1], x[1])

\* line 120: the sort key (-score, name) of x is smaller than that of y
KeyLess(x, y) ==
    \/ FLess(y[1], x[1])
    \/ x[1] = y[1] /\ StrLess(x[2].name, y[2].name)

\* list.sort is stable: x goes after the elements whose key is not greater
RECURSIVE InsertSorted(_, _)
InsertSorted(x, s) ==
    IF s = <<>> THEN <<x>>
    ELSE IF KeyLess(x, Head(s)) THEN <<x>> \o s
    ELSE <<Head(s)>> \o InsertSorted(x, Tail(s))

RECURSIVE SortScored(_)
SortScored(s) ==
    IF s = <<>> THEN <<>>
    ELSE InsertSorted(s[Len(s)], SortScored(SubSeq(s, 1, Len(s) - 1)))

\* lines 116-119
Scored(q, bs) == [i \in 1..Len(bs) |-> <<compute_score(q, bs[i]), bs[i]>>]

\* s[:n]
SliceTo(s, n) ==
    IF n >= 0 THEN SubSeq(s, 1, IF n < Len(s) THEN n ELSE Len(s))
    ELSE SubSeq(s, 1, IF Len(s) + n > 0 THEN Len(s) + n ELSE 0)

rank_matches(q, bs, lim) == SliceTo(SortScored(Scored(q, bs)), lim)

----------------------------------------------------------------------------
(* BookApiHandler.do_GET *)

\* line 155: limit=5
Limit == 5

\* line 167
NoMatchFloor == Frac(55, 100)

\* line 184
CloseBand == Frac(3, 100)

\* line 186
AmbiguityCeiling == Frac(85, 100)

\* {**item, "confidence": round(score, 3)}, the confidence in thousandths
WithConfidence(pair) ==
    [name       |-> pair[2].name,
     form       |-> pair[2].form,
     subject    |-> pair[2].subject,
     category   |-> pair[2].category,
     link       |-> pair[2].link,
     confidence |-> Round3(pair[1])]

\* lines 149-153: q, or else query, stripped (parse_qs drops blank values)
QueryOf(params) == Strip(IF params.q # <<>> THEN params.q ELSE params.query)

\* IsNoMatch without the floor
IsNoMatchEmptyOnly(rk) == rk = <<>>

\* line 167
IsNoMatch(rk) == rk = <<>> \/ FLess(rk[1][1], NoMatchFloor)

\* line 184: top_score - score <= 0.03
IsClose(rk, pair) == FWithin(rk[1][1], pair[1], CloseBand)

\* lines 181-185
CloseMatches(rk) ==
    LET close == SelectSeq(rk, LAMBDA pair : IsClose(rk, pair))
    IN  [i \in 1..Len(close) |-> WithConfidence(close[i])]

\* IsAmbiguous without the ceiling
IsAmbiguousNoCeiling(rk) == Len(CloseMatches(rk)) > 1

\* line 186
IsAmbiguous(rk) == Len(CloseMatches(rk)) > 1 /\ FLess(rk[1][1], AmbiguityCeiling)

\* lines 168-171
Suggestions(rk) == [i \in 1..Len(rk) |-> WithConfidence(rk[i])]

\* lines 156-203: the response to a lookup of q whose ranked list is rk
LookupResponse(q, rk) ==
    IF q = <<>>
    THEN [code |-> 400,
          payload |-> [status |-> "no_query", query |-> q, matches |-> <<>>,
                       message |-> "Provide a query using ?q="]]
    ELSE IF IsNoMatch(rk)
    THEN [code |-> 200,
          payload |-> [status |-> "no_match", query |-> q, matches |-> Suggestions(rk)]]
    ELSE IF IsAmbiguous(rk)
    THEN [code |-> 200,
          payload |-> [status |-> "multiple_matches", query |-> q,
                       matches |-> CloseMatches(rk)]]
    ELSE [code |-> 200,
          payload |-> [status |-> "match", query |-> q, match |-> WithConfidence(rk[1])]]

\* nothing has been sent
NoResponse == [code |-> 0, payload |-> [status |-> "none"]]

Status == response.payload.status

----------------------------------------------------------------------------
(* Inputs of the lookup service *)

MaxLines == 3

\* "- **abc** <u>"
LineAbc == <<"-"," ","*","*","a","b","c","*","*"," ","<","u",">">>

\* "- **abd** <v>"
LineAbd == <<"-"," ","*","*","a","b","d","*","*"," ","<","v",">">>

\* "- **!!** <w>"
LineBang == <<"-"," ","*","*","!","!","*","*"," ","<","w",">">>

\* "- ab c - <x>"
LinePlain == <<"-"," ","a","b"," ","c"," ","-"," ","<","x",">">>

\* "### FORM 1"
LineForm1 == <<"#","#","#"," ","F","O","R","M"," ","1">>

ServiceLines == {LineAbc, LineAbd, LineBang, LinePlain, LineForm1}

\* the values of the parameter q: absent, blank, "!", "ab", " abc ", "zz", "ab zz"
ServiceQueries ==
    {<<>>, <<" ">>, <<"!">>, <<"a","b">>, <<" ","a","b","c"," ">>, <<"z","z">>,
     <<"a","b"," ","z","z">>}

\* q given, or q absent and query=abd given
ServiceParams ==
    {[q |-> v, query |-> <<>>] : v \in ServiceQueries}
    \cup {[q |-> <<>>, query |-> <<"a","b","d">>]}

LineCount(file) == IF file = NoFile THEN 0 ELSE Len(SplitLines(file))

----------------------------------------------------------------------------
(* The lookup service: the document is edited from outside, requests are served *)

parserVars == <<lines, pos, ctx>>

Init ==
    /\ text = NoFile
    /\ pc = "serving"
    /\ lines = <<>>
    /\ pos = 0
    /\ ctx = InitialContext
    /\ books = <<>>
    /\ query = <<>>
    /\ limit = Limit
    /\ item = <<>>
    /\ score = Zero
    /\ ranked = <<>>
    /\ response = NoResponse
    /\ n_scored = 0

\* a line is appended to book_links.txt by its editor
AppendLine(l) ==
    /\ pc = "serving"
    /\ LineCount(text) < MaxLines
    /\ text' = IF text = NoFile THEN l ELSE text \o <<"LF">> \o l
    /\ UNCHANGED <<pc, parserVars, books, query, limit, item, score, ranked,
                   response, n_scored>>

\* book_links.txt is removed
RemoveFile ==
    /\ pc = "serving"
    /\ text # NoFile
    /\ text' = NoFile
    /\ UNCHANGED <<pc, parserVars, books, query, limit, item, score, ranked,
                   response, n_scored>>

\* lines 136-143: GET / and GET /health
GetHealth ==
    /\ pc = "serving"
    /\ pc' = "responded"
    /\ response' = [code |-> 200,
                    payload |-> [status |-> "ok",
                                 endpoints |-> <<"/books.json", "/match?q=macbeth",
                                                 "/search?q=macbeth">>]]
    /\ UNCHANGED <<text, parserVars, books, query, limit, item, score, ranked, n_scored>>

\* lines 144-147: GET /books.json
GetBooks ==
    /\ pc = "serving"
    /\ pc' = "responded"
    /\ books' = load_books(text)
    /\ response' = [code |-> 200,
                    payload |-> [status |-> "", count |-> Len(books'), books |-> books']]
    /\ UNCHANGED <<text, parserVars, query, limit, item, score, ranked, n_scored>>

\* lines 148-203: GET /match and GET /search; every entry is scored by rank_matches
GetMatch(params) ==
    /\ pc = "serving"
    /\ pc' = "responded"
    /\ query' = QueryOf(params)
    /\ books' = load_books(text)
    /\ ranked' = rank_matches(query', books', Limit)
    /\ n_scored' = Len(books')
    /\ response' = LookupResponse(query', ranked')
    /\ UNCHANGED <<text, parserVars, limit, item, score>>

\* line 204: any other path
GetNotFound ==
    /\ pc = "serving"
    /\ pc' = "responded"
    /\ response' = [code |-> 404, payload |-> [status |-> "not_found", path |-> "/other"]]
    /\ UNCHANGED <<text, parserVars, books, query, limit, item, score, ranked, n_scored>>

\* do_GET returns: its locals are gone and the next request is awaited
Return ==
    /\ pc = "responded"
    /\ pc' = "serving"
    /\ books' = <<>>
    /\ query' = <<>>
    /\ ranked' = <<>>
    /\ n_scored' = 0
    /\ response' = NoResponse
    /\ UNCHANGED <<text, parserVars, limit, item, score>>

Next ==
    \/ \E l \in ServiceLines : AppendLine(l)
    \/ RemoveFile
    \/ GetHealth
    \/ GetBooks
    \/ \E params \in ServiceParams : GetMatch(params)
    \/ GetNotFound
    \/ Return

Spec == Init /\ [][Next]_vars

----------------------------------------------------------------------------
(* parse_book_links, one loop iteration at a time *)

MaxParseLines == 3

\* "### FORM 2 BOOKS"
HeadForm2Books ==
    <<"#","#","#"," ","F","O","R","M"," ","2"," ","B","O","O","K","S">>

\* "### Past Papers - Biology", the dash being U+2013
HeadPastBiology ==
    <<"#","#","#"," ","P","a","s","t"," ","P","a","p","e","r","s"," ","NDASH"," ",
      "B","i","o","l","o","g","y">>

\* "### form3 PAST PAPERS"
HeadForm3Past ==
    <<"#","#","#"," ","f","o","r","m","3"," ","P","A","S","T"," ","P","A","P","E","R","S">>

\* "###"
HeadEmpty == <<"#","#","#">>

\* "- **Things Fall Apart** <http://x>"
LineThings ==
    <<"-"," ","*","*","T","h","i","n","g","s"," ","F","a","l","l"," ","A","p","a","r","t",
      "*","*"," ","<","h","t","t","p",":","/","/","x",">">>

\* "- Ab (2) - <u>", the dash being U+2013
LineDash == <<"-"," ","A","b"," ","(","2",")"," ","NDASH"," ","<","u",">">>

\* "- ** - ** <u>": the bold name is empty once stripped
LineEmptyName == <<"-"," ","*","*"," ","-"," ","*","*"," ","<","u",">">>

\* "- **a** < >": the link is empty once stripped
LineEmptyLink == <<"-"," ","*","*","a","*","*"," ","<"," ",">">>

\* "- a <u>": neither pattern matches
LineNoDash == <<"-"," ","a"," ","<","u",">">>

\* " ": a blank line
LineBlank == <<" ">>

ParseLineSet ==
    {HeadForm2Books, HeadPastBiology, HeadForm3Past, HeadEmpty, LineThings, LineDash,
     LineBang, LineEmptyName, LineEmptyLink, LineNoDash, LineBlank}

\* the documents of at most n lines over ls
Documents(ls, n) ==
    {JoinWith(<<"LF">>, d) : d \in UNION {[1..k -> ls] : k \in 0..n}}

\* the state that the parser, the scorer and the ranker leave alone
Idle ==
    /\ item = <<>>
    /\ score = Zero
    /\ ranked = <<>>
    /\ response = NoResponse
    /\ n_scored = 0

\* lines 45-49
ParseStart(t) ==
    /\ text = t
    /\ pc = "parsing"
    /\ lines = SplitLines(t)
    /\ pos = 0
    /\ ctx = InitialContext
    /\ books = <<>>

ParseInit ==
    /\ \E t \in Documents(ParseLineSet, MaxParseLines) : ParseStart(t)
    /\ query = <<>>
    /\ limit = Limit
    /\ Idle

\* lines 49-79: the loop body is run on the next line
ParseStep ==
    /\ pc = "parsing"
    /\ pos < Len(lines)
    /\ ctx' = ParseLine(ctx, lines[pos + 1])
    /\ pos' = pos + 1
    /\ UNCHANGED <<text, pc, lines, books, query, limit, item, score, ranked, response,
                   n_scored>>

\* line 80: the loop is over and books is returned
ParseReturn ==
    /\ pc = "parsing"
    /\ pos = Len(lines)
    /\ pc' = "returned"
    /\ books' = ctx.books
    /\ UNCHANGED <<text, lines, pos, ctx, query, limit, item, score, ranked, response,
                   n_scored>>

ParseNext == ParseStep \/ ParseReturn

SpecParse == ParseInit /\ [][ParseNext]_vars

----------------------------------------------------------------------------
(* parse_book_links on the documents made of one heading and one entry line *)

\* "### FORM d BOOKS"
HeadFormBooks(d) ==
    <<"#","#","#"," ","F","O","R","M"," ",d," ","B","O","O","K","S">>

\* "### PAST PAPERS - BIOLOGY", the dash being U+2013
HeadPASTBIOLOGY ==
    <<"#","#","#"," ","P","A","S","T"," ","P","A","P","E","R","S"," ","NDASH"," ",
      "B","I","O","L","O","G","Y">>

\* "### PAST PAPERS"
HeadPAST == <<"#","#","#"," ","P","A","S","T"," ","P","A","P","E","R","S">>

\* "### past papers chemistry"
HeadPastChemistry ==
    <<"#","#","#"," ","p","a","s","t"," ","p","a","p","e","r","s"," ",
      "c","h","e","m","i","s","t","r","y">>

\* "### Set Books"
HeadSetBooks == <<"#","#","#"," ","S","e","t"," ","B","o","o","k","s">>

\* "### FORM 7 Biology"
HeadForm7 ==
    <<"#","#","#"," ","F","O","R","M"," ","7"," ","B","i","o","l","o","g","y">>

SectionHeadings ==
    {HeadFormBooks(d) : d \in {"1", "2", "3", "4", "5", "6"}}
    \cup {HeadPastBiology, HeadPASTBIOLOGY, HeadPAST, HeadPastChemistry, HeadSetBooks,
          HeadForm7}

SectionEntries == {LineThings, LineDash, LineBang, LineAbc}

SectionInit ==
    /\ \E h \in SectionHeadings, e \in SectionEntries : ParseStart(h \o <<"LF">> \o e)
    /\ query = <<>>
    /\ limit = Limit
    /\ Idle

SpecSection == SectionInit /\ [][ParseNext]_vars

----------------------------------------------------------------------------
(* compute_score on the entries of a parsed catalogue *)

MaxScoreLines == 2

ScoreLineSet == {HeadForm2Books, LineThings, LineDash, LineBang, LineAbc}

\* "ab", "THINGS fall", "zz", ""
ScoreQueries ==
    {<<"a","b">>, <<"T","H","I","N","G","S"," ","f","a","l","l">>, <<"z","z">>, <<>>}

\* the catalogue has not been loaded yet
Loading(docs) ==
    /\ text \in docs
    /\ pc = "loading"
    /\ lines = <<>>
    /\ pos = 0
    /\ ctx = InitialContext
    /\ books = <<>>

ScoreInit ==
    /\ Loading(Documents(ScoreLineSet, MaxScoreLines))
    /\ query = <<>>
    /\ limit = Limit
    /\ Idle

\* books = load_books()
LoadBooks ==
    /\ pc = "loading"
    /\ pc' = "loaded"
    /\ books' = load_books(text)
    /\ UNCHANGED <<text, parserVars, query, limit, item, score, ranked, response, n_scored>>

\* score = compute_score(q, books[i]), for a query of the model or the entry's own name
ScoreEntry ==
    /\ pc = "loaded"
    /\ pc' = "scored"
    /\ \E i \in 1..Len(books) : \E q \in ScoreQueries \cup {books[i].name} :
          /\ item' = books[i]
          /\ query' = q
          /\ score' = compute_score(q, books[i])
    /\ UNCHANGED <<text, parserVars, books, limit, ranked, response, n_scored>>

ScoreNext == LoadBooks \/ ScoreEntry

SpecScore == ScoreInit /\ [][ScoreNext]_vars

----------------------------------------------------------------------------
(* rank_matches on a parsed catalogue, for any limit *)

MaxRankLines == 3

MaxLimit == 2

\* "- **abc** <z>": the name of LineAbc under another link
LineAbcAgain == <<"-"," ","*","*","a","b","c","*","*"," ","<","z",">">>

RankLineSet == {LineAbd, LineAbc, LineAbcAgain, LineBang}

\* "ab", "abc", "!"
RankQueries == {<<"a","b">>, <<"a","b","c">>, <<"!">>}

RankInit ==
    /\ Loading(Documents(RankLineSet, MaxRankLines))
    /\ query \in RankQueries
    /\ limit \in 0..MaxLimit
    /\ Idle

\* ranked = rank_matches(query, books, limit)
RankBooks ==
    /\ pc = "loaded"
    /\ pc' = "ranked"
    /\ ranked' = rank_matches(query, books, limit)
    /\ UNCHANGED <<text, parserVars, books, query, limit, item, score, response, n_scored>>

RankNext == LoadBooks \/ RankBooks

SpecRank == RankInit /\ [][RankNext]_vars

----------------------------------------------------------------------------
(* Properties of the lookup service (Spec) *)

\* a lookup has been answered
LookupDone ==
    pc = "responded" /\ Status \in {"no_query", "no_match", "multiple_matches", "match"}

TopScore == ranked[1][1]

\* the number of ranked entries whose score is within 0.03 of the top score
CloseCount ==
    Cardinality({i \in 1..Len(ranked) : FWithin(TopScore, ranked[i][1], CloseBand)})

\* C1: a lookup with a non-empty query whose ranked list is non-empty and has a top
\* score of at least 0.55 answers multiple_matches exactly when more than one ranked
\* entry is within 0.03 of the top score and the top score is below 0.85, its
\* candidates being those entries (the first ones of the ranked list); otherwise it
\* answers match with the first ranked entry.
C1_Disambiguation ==
    (LookupDone /\ query # <<>> /\ ranked # <<>> /\ FLeq(NoMatchFloor, TopScore)) =>
        IF CloseCount > 1 /\ FLess(TopScore, AmbiguityCeiling)
        THEN /\ Status = "multiple_matches"
             /\ response.payload.matches
                    = [i \in 1..CloseCount |-> WithConfidence(ranked[i])]
        ELSE /\ Status = "match"
             /\ response.payload.match = WithConfidence(ranked[1])

\* a multiple_matches answer that leaves a ranked entry out
C1_Witness ==
    /\ LookupDone
    /\ Status = "multiple_matches"
    /\ Len(response.payload.matches) < Len(ranked)

\* C2: a lookup with a non-empty query answers no_match exactly when the ranked list
\* is empty or its top score is below 0.55; the answer carries every ranked entry, in
\* ranked order; with an empty catalogue the answer is no_match without candidates.
C2_NoMatch ==
    (LookupDone /\ query # <<>>) =>
        /\ (Status = "no_match") <=> (ranked = <<>> \/ FLess(TopScore, NoMatchFloor))
        /\ Status = "no_match" =>
              response.payload.matches
                  = [i \in 1..Len(ranked) |-> WithConfidence(ranked[i])]
        /\ load_books(text) = <<>> =>
              Status = "no_match" /\ response.payload.matches = <<>>

\* a no_match answer with several suggestions
C2_Witness ==
    /\ LookupDone
    /\ Status = "no_match"
    /\ Len(response.payload.matches) >= 2

\* C3: when the trimmed query is empty, no entry has been scored by the time the
\* no_query answer is produced.
C3_NoQueryBeforeScoring ==
    (pc = "responded" /\ Status = "no_query") => n_scored = 0

\* C9: a query that is non-empty once trimmed and empty once normalized scores 0.0
\* against every entry, and its lookup answers neither match nor multiple_matches.
C9_EmptyNormalizedQuery ==
    (LookupDone /\ query # <<>> /\ normalize_text(query) = <<>>) =>
        /\ \A i \in 1..Len(books) : compute_score(query, books[i]) = Zero
        /\ \A i \in 1..Len(ranked) : ranked[i][1] = Zero
        /\ Status \notin {"match", "multiple_matches"}

\* such a lookup on a catalogue that holds an entry whose normalized name is empty too
C9_Witness ==
    /\ LookupDone
    /\ query # <<>>
    /\ normalize_text(query) = <<>>
    /\ Len(ranked) >= 2
    /\ \E i \in 1..Len(books) : normalize_text(books[i].name) = <<>>

----------------------------------------------------------------------------
(* Properties of the parser (SpecParse, SpecSection) *)

FormDigits == {"1", "2", "3", "4", "5", "6"}

ThingsFallApart ==
    <<"T","h","i","n","g","s"," ","F","a","l","l"," ","A","p","a","r","t">>

\* "FORM d BOOKS"
FormBooksTitle(d) == <<"F","O","R","M"," ",d," ","B","O","O","K","S">>

\* the document "### FORM d BOOKS", "- **Things Fall Apart** <http://x>" has been parsed
FormBooksParsed(d) ==
    pc = "returned" /\ lines = <<HeadFormBooks(d), LineThings>>

\* C4 as stated: the document yields one entry of form "Form d", subject "General"
\* and category "FORM d BOOKS", for every d in 1..6.
C4_FormBooksSubjectGeneral ==
    \A d \in FormDigits :
        FormBooksParsed(d) =>
            /\ Len(books) = 1
            /\ books[1].form = FormPrefix \o <<d>>
            /\ books[1].subject = General
            /\ books[1].category = FormBooksTitle(d)

\* C4, amended: the document yields one entry of form "Form d", category
\* "FORM d BOOKS" and subject "Things Fall Apart", the entry's own name.
C4_FormBooksSubjectName ==
    \A d \in FormDigits :
        FormBooksParsed(d) =>
            /\ Len(books) = 1
            /\ books[1].form = FormPrefix \o <<d>>
            /\ books[1].subject = ThingsFallApart
            /\ books[1].category = FormBooksTitle(d)

\* the document of the claim has been parsed
C4_Witness == FormBooksParsed("2") /\ Len(books) = 1

\* s with every occurrence of old, in any letter case, removed (old in upper case)
RECURSIVE RemoveNoCase(_, _)
RemoveNoCase(s, old) ==
    IF s = <<>> THEN <<>>
    ELSE IF Len(s) >= Len(old) /\ Upper(SubSeq(s, 1, Len(old))) = old
    THEN RemoveNoCase(Drop(s, Len(old)), old)
    ELSE <<Head(s)>> \o RemoveNoCase(Tail(s), old)

\* the subject C5 states for a heading title
StatedPastSubject(title) ==
    LET r == Title(Strip(RemoveNoCase(title, PAST_PAPERS)))
    IN  IF r = <<>> THEN PastPapers ELSE r

\* C5: under a heading whose upper-cased title contains "PAST PAPERS", every entry
\* has the form "Past Papers" and, as subject, the title with the phrase removed in
\* whatever letter case it is written, then trimmed and title-cased.
C5_PastPapersSection ==
    (/\ pc = "returned"
     /\ Len(lines) = 2
     /\ IsHeadingLine(lines[1])
     /\ Contains(Upper(HeadingTitle(lines[1])), PAST_PAPERS)) =>
        \A i \in 1..Len(books) :
            /\ books[i].form = PastPapers
            /\ books[i].subject = StatedPastSubject(HeadingTitle(lines[1]))

\* the lines read so far that yield no entry though they are neither blank nor headings
SkippedLines ==
    {i \in 1..pos :
        ~IsBlankLine(lines[i]) /\ ~IsHeadingLine(lines[i]) /\ ~IsEntryLine(lines[i])}

\* C8: every stored entry has a non-empty name and a non-empty link; the entries are
\* as many as the lines read whose pattern match leaves a name and a link, so that any
\* other line adds none; and while the loop runs either its next iteration or the
\* return is possible, the list returned being the one built from all the lines.
C8_EntriesHaveNameAndLink ==
    /\ \A i \in 1..Len(ctx.books) :
          ctx.books[i].name # <<>> /\ ctx.books[i].link # <<>>
    /\ Len(ctx.books) = Cardinality({i \in 1..pos : IsEntryLine(lines[i])})
    /\ pc = "parsing" => pos < Len(lines) \/ pos = Len(lines)
    /\ pc = "returned" => pos = Len(lines) /\ books = ctx.books

\* a parse that returned an entry after skipping two malformed lines
C8_Witness ==
    /\ pc = "returned"
    /\ books # <<>>
    /\ Cardinality(SkippedLines) >= 2

FormValues == {FormPrefix \o <<d>> : d \in FormDigits} \cup {PastPapers, General}

\* the last heading line before line i, 0 if there is none
LastHeading(i) ==
    IF \E j \in 1..(i-1) : IsHeadingLine(lines[j])
    THEN CHOOSE j \in 1..(i-1) :
             IsHeadingLine(lines[j]) /\ \A k \in (j+1)..(i-1) : ~IsHeadingLine(lines[k])
    ELSE 0

\* the context derived from heading line h, the initial one for h = 0
HeadingContext(h) ==
    IF h = 0
    THEN [section_title |-> General, form |-> General, subject |-> General]
    ELSE [section_title |-> HeadingTitle(lines[h]),
          form          |-> extract_form(HeadingTitle(lines[h])),
          subject       |-> extract_section_subject(HeadingTitle(lines[h]))]

\* the line that yielded the k-th entry
EntryLineOf(k) ==
    CHOOSE i \in 1..pos :
        IsEntryLine(lines[i]) /\ Cardinality({j \in 1..i : IsEntryLine(lines[j])}) = k

\* C10: the running context is the one derived from the last heading read (blank,
\* malformed and entry lines leave it as it is); every entry has the form and the
\* category of the nearest heading before its line, "General" when there is none;
\* and the form is one of "Form 1".."Form 6", "Past Papers", "General".
C10_HeadingContext ==
    /\ LET c == HeadingContext(LastHeading(pos + 1))
       IN  /\ ctx.section_title = c.section_title
           /\ ctx.form = c.form
           /\ ctx.subject = c.subject
    /\ \A k \in 1..Len(ctx.books) :
          LET c == HeadingContext(LastHeading(EntryLineOf(k)))
          IN  /\ ctx.books[k].form = c.form
              /\ ctx.books[k].category
                     = Strip(Replace(c.section_title, <<"NNBSP">>, <<" ">>))
              /\ ctx.books[k].form \in FormValues

\* an entry read after a heading and a blank line
C10_Witness ==
    /\ pos = 3
    /\ IsHeadingLine(lines[1])
    /\ IsBlankLine(lines[2])
    /\ IsEntryLine(lines[3])
    /\ ctx.books[1].form = PastPapers

----------------------------------------------------------------------------
(* Properties of the scorer (SpecScore) *)

\* an entry has been scored against its own name
OwnNameScored == pc = "scored" /\ query = item.name

\* C6 as stated: every entry scores 1.0 against its own name.
C6_OwnNameScoresOne == OwnNameScored => score = One

\* C6, amended: every entry whose normalized name is not empty scores 1.0 against
\* its own name.
C6_NormalizableNameScoresOne ==
    (OwnNameScored /\ normalize_text(item.name) # <<>>) => score = One

\* an entry whose name is not in normalized form, scored 1.0 against that name
C6_Witness ==
    /\ OwnNameScored
    /\ normalize_text(item.name) # item.name
    /\ score = One

----------------------------------------------------------------------------
(* Properties of the ranker (SpecRank) *)

\* entry i of s comes before entry j: higher score, then smaller name, then earlier
Before(s, i, j) ==
    \/ FLess(s[j][1], s[i][1])
    \/ s[i][1] = s[j][1] /\ StrLess(s[i][2].name, s[j][2].name)
    \/ s[i][1] = s[j][1] /\ s[i][2].name = s[j][2].name /\ i < j

\* the number of entries of s that come before entry j
RankOf(s, j) == Cardinality({i \in 1..Len(s) : Before(s, i, j)})

\* C7: rank_matches returns at most limit pairs: the first limit ones of the scored
\* catalogue in the order of descending score, then ascending name, entries of equal
\* score and name keeping their catalogue order (which makes the result a function
\* of the query and the catalogue).
C7_RankedOrder ==
    pc = "ranked" =>
        LET s == Scored(query, books)
            n == IF limit < Len(s) THEN limit ELSE Len(s)
        IN  /\ Len(ranked) = n
            /\ Len(ranked) <= limit
            /\ \A k \in 1..n :
                  \E j \in 1..Len(s) : RankOf(s, j) = k - 1 /\ ranked[k] = s[j]

\* a truncated ranking whose first two entries have the same score and the same name
C7_Witness ==
    /\ pc = "ranked"
    /\ limit = 2
    /\ Len(books) = 3
    /\ Len(ranked) = 2
    /\ ranked[1][1] = ranked[2][1]
    /\ ranked[1][2].name = ranked[2][2].name
    /\ ranked[1][2].link # ranked[2][2].link

====
